---- MODULE Spec2Model ----
(***************************************************************************)
(* A model of the email_address crate (src/src/lib.rs): the address        *)
(* splitter, the local-part and domain parsers, the character classifier, *)
(* the Options value and the EmailAddress value with its accessors,        *)
(* equality and hashing.                                                   *)
(*                                                                         *)
(* A Rust &str is modelled as a sequence of Unicode scalar values (code    *)
(* points, as naturals).  str::len is the length of the UTF-8 encoding,    *)
(* so it is computed from the code points by Utf8Len.                      *)
(***************************************************************************)
EXTENDS Integers, Sequences, FiniteSets, TLC

VARIABLES
    address,   \* the text handed to the operation (a whole address or a part)
    other,     \* a second address text (equality and hashing compare two values)
    options,   \* the Options value in use
    op,        \* the operation performed last ("none" before any)
    result     \* what that operation returned

vars == <<address, other, options, op, result>>

----------------------------------------------------------------------------
(* Program constants.                                                      *)

LOCAL_PART_MAX_LENGTH == 64
DOMAIN_MAX_LENGTH == 254
SUB_DOMAIN_MAX_LENGTH == 63

SP == 32
HTAB == 9
ESC == 92
AT == 64
DOT == 46
DQUOTE == 34
LBRACKET == 91
RBRACKET == 93
DISPLAY_SEP == <<32, 60>>
DISPLAY_START == 60
DISPLAY_END == 62

----------------------------------------------------------------------------
(* Strings: std's str operations used by the crate.                        *)

\* The number of bytes of the UTF-8 encoding of one scalar value.
Utf8Len(c) ==
    IF c < 128 THEN 1
    ELSE IF c < 2048 THEN 2
    ELSE IF c < 65536 THEN 3
    ELSE 4

\* str::len: the length in bytes, not in characters.
StrLen(s) ==
    LET n(w) == Cardinality({i \in 1..Len(s) : Utf8Len(s[i]) = w}) IN
    n(1) + 2 * n(2) + 3 * n(3) + 4 * n(4)

\* str::chars().count(): the length in characters.
CharCount(s) == Len(s)

\* char::is_whitespace: the Unicode White_Space property.
IsWhitespace(c) ==
    \/ c \in 9..13
    \/ c = 32
    \/ c = 133
    \/ c = 160
    \/ c = 5760
    \/ c \in 8192..8202
    \/ c \in {8232, 8233, 8239, 8287, 12288}

RECURSIVE TrimStart(_)
TrimStart(s) ==
    IF s # <<>> /\ IsWhitespace(Head(s)) THEN TrimStart(Tail(s)) ELSE s

RECURSIVE TrimEnd(_)
TrimEnd(s) ==
    IF s # <<>> /\ IsWhitespace(s[Len(s)])
    THEN TrimEnd(SubSeq(s, 1, Len(s) - 1))
    ELSE s

\* str::trim
Trim(s) == TrimEnd(TrimStart(s))

StartsWith(s, c) == s # <<>> /\ s[1] = c
EndsWith(s, c) == s # <<>> /\ s[Len(s)] = c

\* The start positions of the occurrences of the pattern p in s.
Occurrences(s, p) ==
    {i \in 1..(Len(s) - Len(p) + 1) : SubSeq(s, i, i + Len(p) - 1) = p}

MaxOf(S) == CHOOSE i \in S : \A j \in S : j <= i

\* str::rsplit_once: None, or the texts before and after the last occurrence.
RSplitOnce(s, p) ==
    LET occ == Occurrences(s, p) IN
    IF occ = {} THEN [found |-> FALSE, left |-> <<>>, right |-> <<>>]
    ELSE LET i == MaxOf(occ) IN
         [found |-> TRUE,
          left |-> SubSeq(s, 1, i - 1),
          right |-> SubSeq(s, i + Len(p), Len(s))]

\* str::split(char): the segments between the occurrences of c, in order.
RECURSIVE Split(_, _)
Split(s, c) ==
    LET occ == {i \in 1..Len(s) : s[i] = c} IN
    IF occ = {} THEN <<s>>
    ELSE LET i == MaxOf(occ) IN
         Append(Split(SubSeq(s, 1, i - 1), c), SubSeq(s, i + 1, Len(s)))

\* u8::to_ascii_lowercase, on the code point of an ASCII character.
ToAsciiLower(c) == IF c \in 65..90 THEN c + 32 ELSE c

\* str::eq_ignore_ascii_case
EqIgnoreAsciiCase(s, t) ==
    /\ Len(s) = Len(t)
    /\ \A i \in 1..Len(s) : ToAsciiLower(s[i]) = ToAsciiLower(t[i])

----------------------------------------------------------------------------
(* Results.                                                                *)

Ok(v) == [ok |-> TRUE, err |-> "None", val |-> v]
Err(e) == [ok |-> FALSE, err |-> e, val |-> <<>>]

----------------------------------------------------------------------------
(* Character classifier.                                                   *)

\* char::is_alphanumeric (Unicode Alphabetic or Numeric).  ASCII is exact;
\* beyond ASCII the table holds the characters the model's alphabets use:
\* U+00E9 (e acute), U+043A (Cyrillic ka), U+4E2D (CJK), U+C2B0 (Hangul) and
\* U+10400 (Deseret) are alphabetic; U+00A7 (section sign), U+00A0 (no-break
\* space), U+20AC (euro sign) and U+1F600 (emoji) are not.
IsAlphanumeric(c) ==
    \/ c \in 48..57
    \/ c \in 65..90
    \/ c \in 97..122
    \/ c \in {233, 1082, 20013, 49840, 66560}

\* is_utf8_non_ascii: matches on the four big-endian bytes of the scalar
\* value itself (c as u32), not on the bytes of its UTF-8 encoding.
is_utf8_non_ascii(c) ==
    LET b0 == c \div 16777216
        b1 == (c \div 65536) % 256
        b2 == (c \div 256) % 256
        b3 == c % 256
    IN  \/ b0 = 0 /\ b1 = 0 /\ b2 \in 194..223 /\ b3 \in 128..191
        \/ b0 = 0 /\ b1 = 224 /\ b2 \in 160..191 /\ b3 \in 128..191
        \/ b0 = 0 /\ b1 \in 225..236 /\ b2 \in 128..191 /\ b3 \in 128..191
        \/ b0 = 0 /\ b1 = 237 /\ b2 \in 128..159 /\ b3 \in 128..191
        \/ b0 = 0 /\ b1 \in 238..239 /\ b2 \in 128..191 /\ b3 \in 128..191
        \/ b0 = 240 /\ b1 \in 144..191 /\ b2 \in 128..191 /\ b3 \in 128..191
        \/ b0 \in 241..243 /\ b1 \in 128..191 /\ b2 \in 128..191 /\ b3 \in 128..191
        \/ b0 = 244 /\ b1 \in 128..143 /\ b2 \in 128..191 /\ b3 \in 128..191

\* ! # $ % & ' * + - / = ? ^ _ ` { | } ~
is_atext(c) ==
    \/ IsAlphanumeric(c)
    \/ c \in {33, 35, 36, 37, 38, 39, 42, 43, 45, 47, 61, 63, 94, 95, 96, 123, 124, 125, 126}
    \/ is_utf8_non_ascii(c)

\* is_atom without the test for the empty text.
is_atom_or_empty(s) == \A i \in 1..Len(s) : is_atext(s[i])

is_atom(s) == s # <<>> /\ \A i \in 1..Len(s) : is_atext(s[i])

is_dot_atom_text(s) ==
    LET segs == Split(s, DOT) IN \A k \in 1..Len(segs) : is_atom(segs[k])

is_vchar(c) == c \in 33..126

is_wsp(c) == c = SP \/ c = HTAB

is_qtext_char(c) ==
    \/ c = 33
    \/ c \in 35..91
    \/ c \in 93..126
    \/ is_utf8_non_ascii(c)

\* is_qcontent with the quoted-pair of RFC 5322: a backslash followed by a
\* VCHAR or by WSP.
RECURSIVE is_qcontent_wsp_pair(_)
is_qcontent_wsp_pair(s) ==
    IF s = <<>> THEN TRUE
    ELSE IF Head(s) = ESC
         THEN /\ Len(s) >= 2
              /\ (is_vchar(s[2]) \/ is_wsp(s[2]))
              /\ is_qcontent_wsp_pair(SubSeq(s, 3, Len(s)))
         ELSE /\ (is_wsp(Head(s)) \/ is_qtext_char(Head(s)))
              /\ is_qcontent_wsp_pair(Tail(s))

\* The loop of is_qcontent: a backslash consumes the character after it,
\* which must be a VCHAR; any other character must be WSP or qtext.
RECURSIVE is_qcontent(_)
is_qcontent(s) ==
    IF s = <<>> THEN TRUE
    ELSE IF Head(s) = ESC
         THEN /\ Len(s) >= 2
              /\ is_vchar(s[2])
              /\ is_qcontent(SubSeq(s, 3, Len(s)))
         ELSE /\ (is_wsp(Head(s)) \/ is_qtext_char(Head(s)))
              /\ is_qcontent(Tail(s))

is_dtext_char(c) ==
    \/ c \in 33..90
    \/ c \in 94..126
    \/ is_utf8_non_ascii(c)

----------------------------------------------------------------------------
(* Options.                                                                *)

\* Defaults that refuse a domain literal.
DefaultOptions_no_domain_literal ==
    [minimum_sub_domains |-> 0,
     allow_domain_literal |-> FALSE,
     allow_display_text |-> TRUE]

DefaultOptions ==
    [minimum_sub_domains |-> 0,
     allow_domain_literal |-> TRUE,
     allow_display_text |-> TRUE]

----------------------------------------------------------------------------
(* Parsers.                                                                *)

parse_quoted_local_part(part) ==
    IF is_qcontent(part) THEN Ok(<<>>) ELSE Err("InvalidCharacter")

parse_unquoted_local_part(part) ==
    IF is_dot_atom_text(part) THEN Ok(<<>>) ELSE Err("InvalidCharacter")

\* parse_local_part with the length counted in characters.
parse_local_part_chars(part, opts) ==
    IF part = <<>> THEN Err("LocalPartEmpty")
    ELSE IF CharCount(part) > LOCAL_PART_MAX_LENGTH THEN Err("LocalPartTooLong")
    ELSE IF StartsWith(part, DQUOTE) /\ EndsWith(part, DQUOTE)
         THEN IF StrLen(part) <= 2 THEN Err("LocalPartEmpty")
              ELSE parse_quoted_local_part(SubSeq(part, 2, Len(part) - 1))
    ELSE parse_unquoted_local_part(part)

\* parse_local_part reporting a quote at one end only as UnbalancedQuotes.
parse_local_part_unbalanced(part, opts) ==
    IF part = <<>> THEN Err("LocalPartEmpty")
    ELSE IF StrLen(part) > LOCAL_PART_MAX_LENGTH THEN Err("LocalPartTooLong")
    ELSE IF StartsWith(part, DQUOTE) /\ EndsWith(part, DQUOTE)
         THEN IF StrLen(part) <= 2 THEN Err("LocalPartEmpty")
              ELSE parse_quoted_local_part(SubSeq(part, 2, Len(part) - 1))
    ELSE IF StartsWith(part, DQUOTE) \/ EndsWith(part, DQUOTE)
         THEN Err("UnbalancedQuotes")
    ELSE parse_unquoted_local_part(part)

parse_local_part(part, opts) ==
    IF part = <<>> THEN Err("LocalPartEmpty")
    ELSE IF StrLen(part) > LOCAL_PART_MAX_LENGTH THEN Err("LocalPartTooLong")
    ELSE IF StartsWith(part, DQUOTE) /\ EndsWith(part, DQUOTE)
         THEN IF StrLen(part) <= 2 THEN Err("LocalPartEmpty")
              ELSE parse_quoted_local_part(SubSeq(part, 2, Len(part) - 1))
    ELSE parse_unquoted_local_part(part)

\* parse_literal_domain refusing the empty interior.
parse_literal_domain_nonempty(part) ==
    IF part # <<>> /\ \A i \in 1..Len(part) : is_dtext_char(part[i])
    THEN Ok(<<>>)
    ELSE Err("InvalidCharacter")

parse_literal_domain(part) ==
    IF \A i \in 1..Len(part) : is_dtext_char(part[i])
    THEN Ok(<<>>)
    ELSE Err("InvalidCharacter")

\* SubDomainError with the length counted in characters.
SubDomainError_chars(sub_part) ==
    IF sub_part = <<>> THEN "SubDomainEmpty"
    ELSE IF ~IsAlphanumeric(sub_part[1]) THEN "InvalidCharacter"
    ELSE IF ~IsAlphanumeric(sub_part[Len(sub_part)]) THEN "InvalidCharacter"
    ELSE IF CharCount(sub_part) > SUB_DOMAIN_MAX_LENGTH THEN "SubDomainTooLong"
    ELSE IF ~is_atom(sub_part) THEN "InvalidCharacter"
    ELSE "None"

\* SubDomainError with the length tested before the first and last character.
SubDomainError_length_first(sub_part) ==
    IF sub_part = <<>> THEN "SubDomainEmpty"
    ELSE IF StrLen(sub_part) > SUB_DOMAIN_MAX_LENGTH THEN "SubDomainTooLong"
    ELSE IF ~IsAlphanumeric(sub_part[1]) THEN "InvalidCharacter"
    ELSE IF ~IsAlphanumeric(sub_part[Len(sub_part)]) THEN "InvalidCharacter"
    ELSE IF ~is_atom(sub_part) THEN "InvalidCharacter"
    ELSE "None"

\* The checks on one label, in the order of the loop body; "None" when the
\* label passes them all.
SubDomainError(sub_part) ==
    IF sub_part = <<>> THEN "SubDomainEmpty"
    ELSE IF ~IsAlphanumeric(sub_part[1]) THEN "InvalidCharacter"
    ELSE IF ~IsAlphanumeric(sub_part[Len(sub_part)]) THEN "InvalidCharacter"
    ELSE IF StrLen(sub_part) > SUB_DOMAIN_MAX_LENGTH THEN "SubDomainTooLong"
    ELSE IF ~is_atom(sub_part) THEN "InvalidCharacter"
    ELSE "None"

\* parse_text_domain with the labels counted before they are checked.
parse_text_domain_count_first(part, opts) ==
    LET subs == Split(part, DOT)
        bad == {k \in 1..Len(subs) : SubDomainError(subs[k]) # "None"}
    IN  IF Len(subs) < opts.minimum_sub_domains THEN Err("DomainTooFew")
        ELSE IF bad # {}
        THEN Err(SubDomainError(subs[CHOOSE k \in bad : \A j \in bad : k <= j]))
        ELSE Ok(<<>>)

\* parse_text_domain with the comparison of the count reversed.
parse_text_domain_count_reversed(part, opts) ==
    LET subs == Split(part, DOT)
        bad == {k \in 1..Len(subs) : SubDomainError(subs[k]) # "None"}
    IN  IF bad # {}
        THEN Err(SubDomainError(subs[CHOOSE k \in bad : \A j \in bad : k <= j]))
        ELSE IF Len(subs) > opts.minimum_sub_domains THEN Err("DomainTooFew")
        ELSE Ok(<<>>)

parse_text_domain(part, opts) ==
    LET subs == Split(part, DOT)
        bad == {k \in 1..Len(subs) : SubDomainError(subs[k]) # "None"}
    IN  IF bad # {}
        THEN Err(SubDomainError(subs[CHOOSE k \in bad : \A j \in bad : k <= j]))
        ELSE IF Len(subs) < opts.minimum_sub_domains THEN Err("DomainTooFew")
        ELSE Ok(<<>>)

\* parse_domain with the form examined before the length.
parse_domain_form_first(part, opts) ==
    IF part = <<>> THEN Err("DomainEmpty")
    ELSE IF StartsWith(part, LBRACKET) /\ EndsWith(part, RBRACKET)
         THEN IF opts.allow_domain_literal
              THEN parse_literal_domain(SubSeq(part, 2, Len(part) - 1))
              ELSE Err("UnsupportedDomainLiteral")
    ELSE IF StrLen(part) > DOMAIN_MAX_LENGTH THEN Err("DomainTooLong")
    ELSE parse_text_domain(part, opts)

parse_domain(part, opts) ==
    IF part = <<>> THEN Err("DomainEmpty")
    ELSE IF StrLen(part) > DOMAIN_MAX_LENGTH THEN Err("DomainTooLong")
    ELSE IF StartsWith(part, LBRACKET) /\ EndsWith(part, RBRACKET)
         THEN IF opts.allow_domain_literal
              THEN parse_literal_domain(SubSeq(part, 2, Len(part) - 1))
              ELSE Err("UnsupportedDomainLiteral")
    ELSE parse_text_domain(part, opts)

\* split_at with the missing separator tolerated: the whole text is the left part.
split_at_lenient(addr) ==
    LET r == RSplitOnce(addr, <<AT>>) IN
    IF r.found THEN Ok(<<r.left, r.right>>) ELSE Ok(<<addr, <<>>>>)

\* split_at splitting at the first '@' (split_once) instead of the last.
split_at_first(addr) ==
    LET occ == {i \in 1..Len(addr) : addr[i] = AT} IN
    IF occ = {} THEN Err("MissingSeparator")
    ELSE LET i == CHOOSE k \in occ : \A j \in occ : k <= j IN
         Ok(<<SubSeq(addr, 1, i - 1), SubSeq(addr, i + 1, Len(addr))>>)

\* Ok carries the pair <<left, right>>.
split_at(addr) ==
    LET r == RSplitOnce(addr, <<AT>>) IN
    IF r.found THEN Ok(<<r.left, r.right>>) ELSE Err("MissingSeparator")

\* split_display_email without the trim of the text after the marker.
split_display_email_untrimmed(text) ==
    LET r == RSplitOnce(text, DISPLAY_SEP) IN
    IF ~r.found THEN Ok(<<<<>>, text>>)
    ELSE LET right == r.right IN
         IF ~EndsWith(right, DISPLAY_END) THEN Err("MissingEndBracket")
         ELSE Ok(<<Trim(r.left), SubSeq(right, 1, Len(right) - 1)>>)

\* split_display_email without the trim of the display name.
split_display_email_raw_name(text) ==
    LET r == RSplitOnce(text, DISPLAY_SEP) IN
    IF ~r.found THEN Ok(<<<<>>, text>>)
    ELSE LET right == Trim(r.right) IN
         IF ~EndsWith(right, DISPLAY_END) THEN Err("MissingEndBracket")
         ELSE Ok(<<r.left, SubSeq(right, 1, Len(right) - 1)>>)

\* Ok carries the pair <<display_name, email>>.
split_display_email(text) ==
    LET r == RSplitOnce(text, DISPLAY_SEP) IN
    IF ~r.found THEN Ok(<<<<>>, text>>)
    ELSE LET right == Trim(r.right) IN
         IF ~EndsWith(right, DISPLAY_END) THEN Err("MissingEndBracket")
         ELSE Ok(<<Trim(r.left), SubSeq(right, 1, Len(right) - 1)>>)

\* Ok carries the triple <<local_part, domain, display>>.
split_parts(addr) ==
    LET de == split_display_email(addr) IN
    IF ~de.ok THEN de
    ELSE LET ld == split_at(de.val[2]) IN
         IF ~ld.ok THEN ld
         ELSE Ok(<<ld.val[1], ld.val[2], de.val[1]>>)

\* parse_address keeping only the email portion of the text it was given.
parse_address_email_only(addr, opts) ==
    LET parts == split_parts(addr) IN
    IF ~parts.ok THEN parts
    ELSE LET local_part == parts.val[1]
             domain == parts.val[2]
             display == parts.val[3]
         IN  IF display # <<>> /\ ~opts.allow_display_text
             THEN Err("UnsupportedDisplayName")
             ELSE IF display = <<>> /\ StartsWith(local_part, DISPLAY_START)
             THEN IF opts.allow_display_text
                  THEN Err("MissingDisplayName")
                  ELSE Err("InvalidCharacter")
             ELSE LET l == parse_local_part(local_part, opts) IN
                  IF ~l.ok THEN l
                  ELSE LET d == parse_domain(domain, opts) IN
                       IF ~d.ok THEN d
                       ELSE Ok(local_part \o <<AT>> \o domain)

\* parse_address with the local part and the domain parsed before the
\* display-name checks.
parse_address_parts_first(addr, opts) ==
    LET parts == split_parts(addr) IN
    IF ~parts.ok THEN parts
    ELSE LET local_part == parts.val[1]
             domain == parts.val[2]
             display == parts.val[3]
             l == parse_local_part(local_part, opts)
             d == parse_domain(domain, opts)
         IN  IF ~l.ok THEN l
             ELSE IF ~d.ok THEN d
             ELSE IF display # <<>> /\ ~opts.allow_display_text
             THEN Err("UnsupportedDisplayName")
             ELSE IF display = <<>> /\ StartsWith(local_part, DISPLAY_START)
             THEN IF opts.allow_display_text
                  THEN Err("MissingDisplayName")
                  ELSE Err("InvalidCharacter")
             ELSE Ok(addr)

\* parse_address with the domain parsed before the local part.
parse_address_domain_first(addr, opts) ==
    LET parts == split_parts(addr) IN
    IF ~parts.ok THEN parts
    ELSE LET local_part == parts.val[1]
             domain == parts.val[2]
             display == parts.val[3]
         IN  IF display # <<>> /\ ~opts.allow_display_text
             THEN Err("UnsupportedDisplayName")
             ELSE IF display = <<>> /\ StartsWith(local_part, DISPLAY_START)
             THEN IF opts.allow_display_text
                  THEN Err("MissingDisplayName")
                  ELSE Err("InvalidCharacter")
             ELSE LET d == parse_domain(domain, opts) IN
                  IF ~d.ok THEN d
                  ELSE LET l == parse_local_part(local_part, opts) IN
                       IF ~l.ok THEN l
                       ELSE Ok(addr)

\* Ok carries the EmailAddress: the String it wraps.
parse_address(addr, opts) ==
    LET parts == split_parts(addr) IN
    IF ~parts.ok THEN parts
    ELSE LET local_part == parts.val[1]
             domain == parts.val[2]
             display == parts.val[3]
         IN  IF display # <<>> /\ ~opts.allow_display_text
             THEN Err("UnsupportedDisplayName")
             ELSE IF display = <<>> /\ StartsWith(local_part, DISPLAY_START)
             THEN IF opts.allow_display_text
                  THEN Err("MissingDisplayName")
                  ELSE Err("InvalidCharacter")
             ELSE LET l == parse_local_part(local_part, opts) IN
                  IF ~l.ok THEN l
                  ELSE LET d == parse_domain(domain, opts) IN
                       IF ~d.ok THEN d
                       ELSE Ok(addr)

----------------------------------------------------------------------------
(* The EmailAddress value: the wrapped String and its views.  The views    *)
(* unwrap split_parts; they are used on values for which it succeeds.      *)

local_part(email) == split_parts(email).val[1]
domain(email) == split_parts(email).val[2]
display_part(email) == split_parts(email).val[3]
email_of(email) ==
    LET p == split_parts(email).val IN p[1] \o <<AT>> \o p[2]
as_str(email) == email

\* PartialEq::eq: both texts are split at their last '@' (split_at on the
\* whole wrapped String, unwrapped).
eq(email, other_email) ==
    LET l == split_at(email).val
        r == split_at(other_email).val
    IN  l[1] = r[1] /\ EqIgnoreAsciiCase(l[2], r[2])

\* The UTF-8 encoding of one scalar value.
Utf8Encode(c) ==
    IF c < 128 THEN <<c>>
    ELSE IF c < 2048 THEN <<192 + (c \div 64), 128 + (c % 64)>>
    ELSE IF c < 65536
         THEN <<224 + (c \div 4096), 128 + ((c \div 64) % 64), 128 + (c % 64)>>
    ELSE <<240 + (c \div 262144), 128 + ((c \div 4096) % 64),
           128 + ((c \div 64) % 64), 128 + (c % 64)>>

RECURSIVE Utf8Bytes(_)
Utf8Bytes(s) == IF s = <<>> THEN <<>> ELSE Utf8Encode(Head(s)) \o Utf8Bytes(Tail(s))

\* Hash::hash: the wrapped String is hashed as a str, which writes its bytes
\* and then the byte 0xFF to the Hasher.  The value is what the Hasher is
\* fed: two values hash alike under every Hasher exactly when they feed it
\* the same bytes.
hash(email) == Utf8Bytes(email) \o <<255>>

----------------------------------------------------------------------------
(* Bounds and input sets.                                                  *)

\* The longest whole-address text, in characters.
MaxLen == 6
\* The largest minimum_sub_domains an Options value is given.
MaxMinSubDomains == 2

\* All texts of at most n characters over the alphabet S.
AllStrings(S, n) == UNION {[1..k -> S] : k \in 0..n}

OptionsSet ==
    [minimum_sub_domains : 0..MaxMinSubDomains,
     allow_domain_literal : BOOLEAN,
     allow_display_text : BOOLEAN]

\* a @ space < >
AddressChars == {97, 64, 32, 60, 62}
AddressTexts == AllStrings(AddressChars, MaxLen)

\* Texts with a display wrapper, "D <inner>" followed by nothing or by
\* whitespace, or with the '>' missing; and the inner texts on their own.
MaxDisplayLen == 2
MaxInnerLen == 4
\* a space
DisplayChars == {97, 32}
\* a @ space .
InnerChars == {97, 64, 32, 46}
DisplayTails == {<<62>>, <<62, 32>>, <<>>}
DisplayTexts ==
    {d \o DISPLAY_SEP \o i \o t :
        d \in AllStrings(DisplayChars, MaxDisplayLen),
        i \in AllStrings(InnerChars, MaxInnerLen),
        t \in DisplayTails}
    \cup AllStrings(InnerChars, MaxInnerLen)

\* Parts (local parts and domains) around the three length limits: a run of
\* one character between a short head and a short tail.
Slack == 2
Rep(c, n) == [i \in 1..n |-> c]
\* a - e-acute (2 bytes) Hangul U+C2B0 (3 bytes) section sign (2 bytes, not atext)
RunChars == {97, 45, 233, 49840, 167}
Limits == {LOCAL_PART_MAX_LENGTH, SUB_DOMAIN_MAX_LENGTH, DOMAIN_MAX_LENGTH}
\* Run lengths near each limit, taken in characters of 1, 2 and 3 bytes.
RunLens ==
    {(l \div w) + d : l \in Limits, w \in 1..3, d \in (0 - Slack)..Slack}
    \cup 0..Slack
\* nothing, a, [, ", a.
PartHeads == {<<>>, <<97>>, <<91>>, <<34>>, <<97, 46>>}
\* nothing, a, ], ", .a
PartTails == {<<>>, <<97>>, <<93>>, <<34>>, <<46, 97>>}
PartTexts ==
    {h \o Rep(c, n) \o t :
        h \in PartHeads, c \in RunChars, n \in RunLens, t \in PartTails}

\* Valid addresses that differ in letter case and in the display name.
MaxEqLen == 1
\* a A
CaseChars == {97, 65}
EqWords == AllStrings(CaseChars, MaxEqLen) \ {<<>>}
EqTexts ==
    {l \o <<AT>> \o m : l \in EqWords, m \in EqWords}
    \cup {d \o DISPLAY_SEP \o l \o <<AT>> \o m \o <<DISPLAY_END>> :
            d \in EqWords, l \in EqWords, m \in EqWords}

NoResult == [ok |-> FALSE, err |-> "None", val |-> <<>>]

----------------------------------------------------------------------------
(* Whole-address parsing: EmailAddress::parse_with_options.                *)

Init ==
    /\ address \in AddressTexts
    /\ other = <<>>
    /\ options = DefaultOptions
    /\ op = "none"
    /\ result = NoResult

\* parse_with_options(address, o), for any Options value o.
ParseWithOptions ==
    /\ op = "none"
    /\ \E o \in OptionsSet :
          /\ options' = o
          /\ result' = parse_address(address, o)
    /\ op' = "parse_with_options"
    /\ UNCHANGED <<address, other>>

Next == ParseWithOptions

Spec == Init /\ [][Next]_vars

\* The same operation on the texts with a display wrapper.
InitDisplay ==
    /\ address \in DisplayTexts
    /\ other = <<>>
    /\ options = DefaultOptions
    /\ op = "none"
    /\ result = NoResult

SpecDisplay == InitDisplay /\ [][Next]_vars

----------------------------------------------------------------------------
(* The part parsers on their own: parse_local_part (as is_valid_local_part *)
(* calls it) and parse_domain.                                             *)

InitParts ==
    /\ address \in PartTexts
    /\ other = <<>>
    /\ options = DefaultOptions
    /\ op = "none"
    /\ result = NoResult

ParseLocalPart ==
    /\ op = "none"
    /\ op' = "parse_local_part"
    /\ result' = parse_local_part(address, options)
    /\ UNCHANGED <<address, other, options>>

ParseDomain ==
    /\ op = "none"
    /\ \E o \in OptionsSet :
          /\ options' = o
          /\ result' = parse_domain(address, o)
    /\ op' = "parse_domain"
    /\ UNCHANGED <<address, other>>

NextParts == ParseLocalPart \/ ParseDomain

SpecParts == InitParts /\ [][NextParts]_vars

----------------------------------------------------------------------------
(* Two validated values compared and hashed.                               *)

InitEq ==
    /\ address \in EqTexts
    /\ other \in EqTexts
    /\ options = DefaultOptions
    /\ parse_address(address, options).ok
    /\ parse_address(other, options).ok
    /\ op = "none"
    /\ result = NoResult

\* address == other; the result carries the boolean.
CompareEq ==
    /\ op = "none"
    /\ op' = "eq"
    /\ result' = Ok(eq(address, other))
    /\ UNCHANGED <<address, other, options>>

\* Both values hashed; the result carries the two hashes.
HashBoth ==
    /\ op = "none"
    /\ op' = "hash"
    /\ result' = Ok(<<hash(address), hash(other)>>)
    /\ UNCHANGED <<address, other, options>>

NextEq == CompareEq \/ HashBoth

SpecEq == InitEq /\ [][NextEq]_vars

----------------------------------------------------------------------------
(* Claims about whole-address parsing (specification Spec).                *)

Parsed == op = "parse_with_options"

\* The characters occurring in a text.
CharsOf(s) == {s[i] : i \in 1..Len(s)}

\* The positions at which the two characters space, '<' occur in a text.
MarkerAt(t) == {i \in 1..(Len(t) - 1) : t[i] = 32 /\ t[i + 1] = 60}

\* The text after the last marker, with surrounding whitespace trimmed.
AfterLastMarker(t) == Trim(SubSeq(t, MaxOf(MarkerAt(t)) + 2, Len(t)))

\* The text before the last marker.
BeforeLastMarker(t) == SubSeq(t, 1, MaxOf(MarkerAt(t)) - 1)

\* C1: when parse_with_options(T, C) succeeds, the value stores T exactly
\* (as_str() = T, nothing trimmed or normalised) and the stored text parses
\* again under C.
C1_StoresTextVerbatim ==
    (Parsed /\ result.ok) =>
        /\ as_str(result.val) = address
        /\ parse_address(as_str(result.val), options).ok

\* C1 witness: an accepted text that begins with whitespace and has the
\* bracket wrapper, stored as given.
C1_Witness ==
    /\ Parsed
    /\ result.ok
    /\ MarkerAt(address) # {}
    /\ IsWhitespace(address[1])
    /\ as_str(result.val) = address

\* C8: when the address portion (the whole text, or the text inside the
\* display wrapper) contains no '@', parsing fails with MissingSeparator
\* under every Options value, before any display-name, local-part or domain
\* check.
C8_MissingSeparator ==
    LET de == split_display_email(address) IN
    (Parsed /\ de.ok /\ AT \notin CharsOf(de.val[2])) =>
        result = Err("MissingSeparator")

\* C8 witness: a wrapper with a display name and no '@' inside, parsed with
\* allow_display_text = FALSE, reports the missing separator.
C8_Witness ==
    /\ Parsed
    /\ ~options.allow_display_text
    /\ split_display_email(address).ok
    /\ split_display_email(address).val[1] # <<>>
    /\ AT \notin CharsOf(split_display_email(address).val[2])
    /\ result = Err("MissingSeparator")

\* C9: when the text contains the marker " <" and the text after its last
\* occurrence, trimmed, does not end with '>', parsing fails with
\* MissingEndBracket under every Options value; otherwise the enclosed
\* address is that text without its final '>'.
C9_MissingEndBracket ==
    (Parsed /\ MarkerAt(address) # {}) =>
        LET after == AfterLastMarker(address) IN
        IF ~EndsWith(after, DISPLAY_END)
        THEN result = Err("MissingEndBracket")
        ELSE /\ split_display_email(address).ok
             /\ split_display_email(address).val[2] = SubSeq(after, 1, Len(after) - 1)
             /\ result.err # "MissingEndBracket"
             /\ result.ok => email_of(result.val) = SubSeq(after, 1, Len(after) - 1)

\* C9 witness: a marker whose trimmed tail is blank (no '>' at all), and the
\* failure reported with allow_display_text = FALSE.
C9_Witness ==
    /\ Parsed
    /\ MarkerAt(address) # {}
    /\ ~options.allow_display_text
    /\ AT \in CharsOf(address)
    /\ ~EndsWith(AfterLastMarker(address), DISPLAY_END)
    /\ result = Err("MissingEndBracket")

\* C10: with allow_display_text = FALSE, every text that splits and has a
\* non-empty display name fails with UnsupportedDisplayName, whatever the
\* validity of the enclosed local part and domain.
C10_UnsupportedDisplayName ==
    LET parts == split_parts(address) IN
    (Parsed /\ ~options.allow_display_text /\ parts.ok /\ parts.val[3] # <<>>) =>
        result = Err("UnsupportedDisplayName")

\* C10 witness: a display name before an address whose local part is empty.
C10_Witness ==
    /\ Parsed
    /\ ~options.allow_display_text
    /\ split_parts(address).ok
    /\ split_parts(address).val[3] # <<>>
    /\ ~parse_local_part(split_parts(address).val[1], options).ok
    /\ result = Err("UnsupportedDisplayName")

----------------------------------------------------------------------------
(* Claims about the views of a parsed value (specification SpecDisplay).   *)

\* The text has the form D <L@M>: it ends with '>', and L and M are the
\* texts on the two sides of the last '@' between the last marker and that
\* final '>'.
HasDisplayForm(t) ==
    /\ MarkerAt(t) # {}
    /\ t[Len(t)] = DISPLAY_END
    /\ \E i \in (MaxOf(MarkerAt(t)) + 2)..(Len(t) - 1) : t[i] = AT

FormAt(t) ==
    MaxOf({i \in (MaxOf(MarkerAt(t)) + 2)..(Len(t) - 1) : t[i] = AT})
FormD(t) == BeforeLastMarker(t)
FormL(t) == SubSeq(t, MaxOf(MarkerAt(t)) + 2, FormAt(t) - 1)
FormM(t) == SubSeq(t, FormAt(t) + 1, Len(t) - 1)

\* C2 as stated: for a parsed text of the form D <L@M>, display_part() is D
\* trimmed, local_part() = L, domain() = M and email() = L@M; without a
\* wrapper display_part() is empty and email() is the stored text; always
\* local_part() + '@' + domain() = email().
C2_ViewsAsStated ==
    (Parsed /\ result.ok) =>
        LET e == result.val IN
        /\ HasDisplayForm(e) =>
             /\ display_part(e) = Trim(FormD(e))
             /\ local_part(e) = FormL(e)
             /\ domain(e) = FormM(e)
             /\ email_of(e) = FormL(e) \o <<AT>> \o FormM(e)
        /\ MarkerAt(e) = {} =>
             /\ display_part(e) = <<>>
             /\ email_of(e) = e
        /\ local_part(e) \o <<AT>> \o domain(e) = email_of(e)

\* C2 amended: as stated, except that local_part() is L without its leading
\* whitespace (the text inside the brackets is trimmed before it is split).
C2_Views ==
    (Parsed /\ result.ok) =>
        LET e == result.val IN
        /\ HasDisplayForm(e) =>
             /\ display_part(e) = Trim(FormD(e))
             /\ local_part(e) = TrimStart(FormL(e))
             /\ domain(e) = FormM(e)
             /\ email_of(e) = TrimStart(FormL(e)) \o <<AT>> \o FormM(e)
        /\ MarkerAt(e) = {} =>
             /\ display_part(e) = <<>>
             /\ email_of(e) = e
        /\ local_part(e) \o <<AT>> \o domain(e) = email_of(e)

\* C2 witness: an accepted text with a display name padded with whitespace
\* and whitespace after the '<'.
C2_Witness ==
    /\ Parsed
    /\ result.ok
    /\ HasDisplayForm(result.val)
    /\ Trim(FormD(result.val)) # <<>>
    /\ Trim(FormD(result.val)) # FormD(result.val)
    /\ IsWhitespace(FormL(result.val)[1])

----------------------------------------------------------------------------
(* Claims about equality and hashing (specification SpecEq).               *)

\* C3: two validated addresses, with or without a display wrapper, compare
\* equal exactly when their local_part() values are identical and their
\* domain() values are equal ignoring ASCII case.
C3_EqByLocalPartAndDomain ==
    op = "eq" =>
        (result.val <=>
            /\ local_part(address) = local_part(other)
            /\ EqIgnoreAsciiCase(domain(address), domain(other)))

\* C4: any two values that compare equal produce the same hash.
C4_EqualValuesHashAlike ==
    op = "hash" =>
        (eq(address, other) => result.val[1] = result.val[2])

----------------------------------------------------------------------------
(* Claims about the length limits (specification SpecParts).               *)

AllAtext(s) == \A i \in 1..Len(s) : is_atext(s[i])

\* C5 as stated: the limit counts characters: an unquoted local part of
\* exactly 64 atext characters is accepted and one of 65 or more characters
\* fails with LocalPartTooLong.
C5_CountsCharacters ==
    op = "parse_local_part" =>
        /\ (CharCount(address) = LOCAL_PART_MAX_LENGTH /\ AllAtext(address)) => result.ok
        /\ CharCount(address) > LOCAL_PART_MAX_LENGTH => result = Err("LocalPartTooLong")

\* C5 amended: the limit counts the bytes of the UTF-8 encoding: an unquoted
\* local part of atext characters whose encoding is exactly 64 bytes long is
\* accepted, and every local part whose encoding is longer than 64 bytes
\* fails with LocalPartTooLong, before any structural check.
C5_CountsBytes ==
    op = "parse_local_part" =>
        /\ (StrLen(address) = LOCAL_PART_MAX_LENGTH /\ AllAtext(address)) => result.ok
        /\ StrLen(address) > LOCAL_PART_MAX_LENGTH => result = Err("LocalPartTooLong")

\* C5 witness: a local part of fewer than 64 characters that is too long,
\* its encoding being 65 bytes or more.
C5_Witness ==
    /\ op = "parse_local_part"
    /\ CharCount(address) < LOCAL_PART_MAX_LENGTH
    /\ AllAtext(address)
    /\ StrLen(address) > LOCAL_PART_MAX_LENGTH
    /\ result = Err("LocalPartTooLong")

\* A text domain: not the bracketed form.
IsTextDomain(s) == ~(StartsWith(s, LBRACKET) /\ EndsWith(s, RBRACKET))

\* A label that starts and ends with an alphanumeric character and consists
\* of atext characters.
WellFormedLabel(l) ==
    /\ l # <<>>
    /\ IsAlphanumeric(l[1])
    /\ IsAlphanumeric(l[Len(l)])
    /\ AllAtext(l)

Labels(s) == Split(s, DOT)
LabelsOf(s) == {Labels(s)[k] : k \in 1..Len(Labels(s))}

\* C6 as stated: the limit counts characters: in a text domain of
\* well-formed labels, a label of exactly 63 characters is accepted and one
\* of 64 characters fails with SubDomainTooLong.
C6_CountsCharacters ==
    (/\ op = "parse_domain"
     /\ IsTextDomain(address)
     /\ StrLen(address) <= DOMAIN_MAX_LENGTH
     /\ \A l \in LabelsOf(address) : WellFormedLabel(l)) =>
        /\ (/\ \E l \in LabelsOf(address) : CharCount(l) = SUB_DOMAIN_MAX_LENGTH
            /\ \A l \in LabelsOf(address) : CharCount(l) <= SUB_DOMAIN_MAX_LENGTH
            /\ Len(Labels(address)) >= options.minimum_sub_domains) => result.ok
        /\ (\E l \in LabelsOf(address) : CharCount(l) = SUB_DOMAIN_MAX_LENGTH + 1)
              => result = Err("SubDomainTooLong")

\* C6 amended: the limit counts the bytes of the UTF-8 encoding: a
\* well-formed label whose encoding is exactly 63 bytes long is accepted,
\* and one whose encoding is 64 bytes long fails with SubDomainTooLong.
C6_CountsBytes ==
    (/\ op = "parse_domain"
     /\ IsTextDomain(address)
     /\ StrLen(address) <= DOMAIN_MAX_LENGTH
     /\ \A l \in LabelsOf(address) : WellFormedLabel(l)) =>
        /\ (/\ \E l \in LabelsOf(address) : StrLen(l) = SUB_DOMAIN_MAX_LENGTH
            /\ \A l \in LabelsOf(address) : StrLen(l) <= SUB_DOMAIN_MAX_LENGTH
            /\ Len(Labels(address)) >= options.minimum_sub_domains) => result.ok
        /\ (\E l \in LabelsOf(address) : StrLen(l) = SUB_DOMAIN_MAX_LENGTH + 1)
              => result = Err("SubDomainTooLong")

\* C6 witness: a well-formed label of fewer than 63 characters whose
\* encoding is 64 bytes long, refused as too long.
C6_Witness ==
    /\ op = "parse_domain"
    /\ IsTextDomain(address)
    /\ \A l \in LabelsOf(address) : WellFormedLabel(l)
    /\ \E l \in LabelsOf(address) :
          /\ CharCount(l) < SUB_DOMAIN_MAX_LENGTH
          /\ StrLen(l) = SUB_DOMAIN_MAX_LENGTH + 1
    /\ result = Err("SubDomainTooLong")

\* C7: parse_domain returns DomainEmpty for the empty domain and
\* DomainTooLong for every domain longer than 254 characters, bracketed or
\* not, under every Options value: both checks come before the form is
\* examined.
C7_DomainLengthChecks ==
    op = "parse_domain" =>
        /\ address = <<>> => result = Err("DomainEmpty")
        /\ CharCount(address) > DOMAIN_MAX_LENGTH => result = Err("DomainTooLong")

\* C7 witness: a bracketed literal longer than 254 characters, with
\* allow_domain_literal = FALSE, reported as too long.
C7_Witness ==
    /\ op = "parse_domain"
    /\ ~options.allow_domain_literal
    /\ StartsWith(address, LBRACKET)
    /\ EndsWith(address, RBRACKET)
    /\ CharCount(address) > DOMAIN_MAX_LENGTH
    /\ result = Err("DomainTooLong")
----------------------------------------------------------------------------
(* Claims about the display-name checks (specification Spec).              *)

\* C11: a text given as <addr> with no display name (the display name is
\* absent and the local part begins with '<') fails with MissingDisplayName
\* when allow_display_text is TRUE and with InvalidCharacter when it is
\* FALSE, whatever the validity of the rest of the address.
C11_BracketWithoutName ==
    LET parts == split_parts(address) IN
    (Parsed /\ parts.ok /\ parts.val[3] = <<>> /\ StartsWith(parts.val[1], DISPLAY_START)) =>
        result = (IF options.allow_display_text
                  THEN Err("MissingDisplayName")
                  ELSE Err("InvalidCharacter"))

\* C11 witness: <addr> whose domain is invalid, parsed with
\* allow_display_text = TRUE.
C11_Witness ==
    /\ Parsed
    /\ options.allow_display_text
    /\ StartsWith(address, DISPLAY_START)
    /\ split_parts(address).ok
    /\ ~parse_domain(split_parts(address).val[2], options).ok
    /\ result = Err("MissingDisplayName")

\* The text is an address (it has an '@') enclosed in '<' ... '>' with
\* nothing, or only whitespace, before the '<'.
BracketedWithoutName(t) ==
    /\ StartsWith(TrimStart(t), DISPLAY_START)
    /\ EndsWith(Trim(t), DISPLAY_END)
    /\ AT \in CharsOf(t)

\* The text has the angle-bracket wrapper, with or without text before it.
HasBracketWrapper(t) ==
    /\ EndsWith(Trim(t), DISPLAY_END)
    /\ (MarkerAt(t) # {} \/ StartsWith(TrimStart(t), DISPLAY_START))

\* C12: with allow_display_text = TRUE, every text whose address is enclosed
\* in '<' ... '>' with no name text before the '<' fails with
\* MissingDisplayName, and no accepted value has the bracket wrapper
\* together with an empty display_part().
C12_MissingDisplayName ==
    (Parsed /\ options.allow_display_text) =>
        /\ BracketedWithoutName(address) => result = Err("MissingDisplayName")
        /\ (result.ok /\ HasBracketWrapper(address)) => display_part(result.val) # <<>>

\* C13: with allow_display_text = FALSE, no text in which the address is
\* wrapped in '<' ... '>' is accepted.
C13_NoBracketsWithoutDisplayText ==
    (Parsed /\ ~options.allow_display_text /\ HasBracketWrapper(address)) => ~result.ok
----------------------------------------------------------------------------
(* The local-part parser on short texts of every shape and on the long     *)
(* runs.                                                                   *)

MaxLocalLen == 5
\* a . " \ space e-acute Hangul U+C2B0
LocalChars == {97, 46, 34, 92, 32, 233, 49840}
LocalTexts == AllStrings(LocalChars, MaxLocalLen) \cup PartTexts

InitLocal ==
    /\ address \in LocalTexts
    /\ other = <<>>
    /\ options = DefaultOptions
    /\ op = "none"
    /\ result = NoResult

NextLocal == ParseLocalPart

SpecLocal == InitLocal /\ [][NextLocal]_vars

----------------------------------------------------------------------------
(* Claims about the local-part parser (specification SpecLocal).           *)

\* Wrapped in double quotes: the first and the last character are '"' (they
\* are the same character in the text of one '"').
IsQuoted(s) == StartsWith(s, DQUOTE) /\ EndsWith(s, DQUOTE)

Interior(s) == SubSeq(s, 2, Len(s) - 1)

\* The number of backslashes in a row that end just before position i.
RECURSIVE BackslashesBefore(_, _)
BackslashesBefore(s, i) ==
    IF i > 1 /\ s[i - 1] = ESC THEN 1 + BackslashesBefore(s, i - 1) ELSE 0

\* The character at i is the second of a backslash pair.
Escaped(s, i) == BackslashesBefore(s, i) % 2 = 1

\* The text is a sequence of items, each a backslash followed by one VCHAR
\* or a single whitespace or qtext character.
IsItemSequence(s) ==
    \A i \in 1..Len(s) :
        IF Escaped(s, i) THEN is_vchar(s[i])
        ELSE IF s[i] = ESC THEN i < Len(s)
        ELSE is_wsp(s[i]) \/ is_qtext_char(s[i])

\* What the claim says of a quoted local part.
QuotedOutcome(s) ==
    IF Len(s) <= 2 THEN Err("LocalPartEmpty")
    ELSE IF IsItemSequence(Interior(s)) THEN Ok(<<>>)
    ELSE Err("InvalidCharacter")

IsDotAtom(s) ==
    /\ s # <<>>
    /\ s[1] # DOT
    /\ s[Len(s)] # DOT
    /\ \A i \in 1..(Len(s) - 1) : ~(s[i] = DOT /\ s[i + 1] = DOT)
    /\ \A i \in 1..Len(s) : s[i] = DOT \/ is_atext(s[i])

\* C15 as stated: a non-empty unquoted local part of at most 64 characters
\* is accepted exactly when it is dot-separated non-empty atext segments,
\* and is refused with InvalidCharacter otherwise.
C15_UnquotedWithin64Characters ==
    (op = "parse_local_part" /\ address # <<>> /\ ~IsQuoted(address)
        /\ CharCount(address) <= LOCAL_PART_MAX_LENGTH) =>
        result = (IF IsDotAtom(address) THEN Ok(<<>>) ELSE Err("InvalidCharacter"))

\* C15 amended: the same for an unquoted local part whose UTF-8 encoding is
\* at most 64 bytes long.
C15_UnquotedWithin64Bytes ==
    (op = "parse_local_part" /\ address # <<>> /\ ~IsQuoted(address)
        /\ StrLen(address) <= LOCAL_PART_MAX_LENGTH) =>
        result = (IF IsDotAtom(address) THEN Ok(<<>>) ELSE Err("InvalidCharacter"))

\* C15 witness: an unquoted local part of atext characters refused for its
\* trailing dot.
C15_Witness ==
    /\ op = "parse_local_part"
    /\ ~IsQuoted(address)
    /\ Len(address) >= 2
    /\ address[Len(address)] = DOT
    /\ \A i \in 1..(Len(address) - 1) : is_atext(address[i])
    /\ result = Err("InvalidCharacter")
----------------------------------------------------------------------------
(* The domain parser on short texts of every shape and on the long runs.   *)

MaxDomainLen == 4
\* a . - [ ] space
DomainChars == {97, 46, 45, 91, 93, 32}
DomainTexts == AllStrings(DomainChars, MaxDomainLen) \cup PartTexts

InitDomain ==
    /\ address \in DomainTexts
    /\ other = <<>>
    /\ options = DefaultOptions
    /\ op = "none"
    /\ result = NoResult

NextDomain == ParseDomain

SpecDomain == InitDomain /\ [][NextDomain]_vars

----------------------------------------------------------------------------
(* Claims about the domain parser (specification SpecDomain).              *)

IsBracketed(s) == StartsWith(s, LBRACKET) /\ EndsWith(s, RBRACKET)

\* What the claim says of a bracketed domain.
LiteralOutcome(s, opts) ==
    IF ~opts.allow_domain_literal THEN Err("UnsupportedDomainLiteral")
    ELSE IF \A i \in 2..(Len(s) - 1) : is_dtext_char(s[i]) THEN Ok(<<>>)
    ELSE Err("InvalidCharacter")

\* C16 as stated: for a bracketed domain of 1 to 254 characters the parser
\* returns UnsupportedDomainLiteral when allow_domain_literal is FALSE, and
\* otherwise success exactly when every interior character is dtext (an
\* empty interior included) and InvalidCharacter if not.
C16_LiteralWithin254Characters ==
    (op = "parse_domain" /\ IsBracketed(address)
        /\ CharCount(address) <= DOMAIN_MAX_LENGTH) =>
        result = LiteralOutcome(address, options)

\* C16 amended: the same for a bracketed domain whose UTF-8 encoding is at
\* most 254 bytes long.
C16_LiteralWithin254Bytes ==
    (op = "parse_domain" /\ IsBracketed(address)
        /\ StrLen(address) <= DOMAIN_MAX_LENGTH) =>
        result = LiteralOutcome(address, options)

\* C16 witness: the literal with an empty interior, accepted.
C16_Witness ==
    /\ op = "parse_domain"
    /\ address = <<LBRACKET, RBRACKET>>
    /\ options.allow_domain_literal
    /\ result.ok

\* A text domain as parse_domain hands it to parse_text_domain: not empty,
\* within the length limit, not bracketed.
IsTextDomainInput(s) ==
    /\ s # <<>>
    /\ StrLen(s) <= DOMAIN_MAX_LENGTH
    /\ ~IsBracketed(s)

\* The checks on one label in the order the claim gives; "None" if it passes.
LabelCheck(l) ==
    CASE l = <<>> -> "SubDomainEmpty"
      [] l # <<>> /\ ~IsAlphanumeric(l[1]) -> "InvalidCharacter"
      [] l # <<>> /\ IsAlphanumeric(l[1]) /\ ~IsAlphanumeric(l[Len(l)]) -> "InvalidCharacter"
      [] OTHER ->
            IF StrLen(l) > SUB_DOMAIN_MAX_LENGTH THEN "SubDomainTooLong"
            ELSE IF \E i \in 1..Len(l) : ~is_atext(l[i]) THEN "InvalidCharacter"
            ELSE "None"

\* The labels of a domain, left to right: the text up to the first dot, then
\* the labels of the rest.
RECURSIVE LabelsLeftToRight(_)
LabelsLeftToRight(s) ==
    LET dots == {i \in 1..Len(s) : s[i] = DOT} IN
    IF dots = {} THEN <<s>>
    ELSE LET i == CHOOSE d \in dots : \A e \in dots : d <= e IN
         <<SubSeq(s, 1, i - 1)>> \o LabelsLeftToRight(SubSeq(s, i + 1, Len(s)))

\* The first failing check of the first failing label; "None" if none fails.
RECURSIVE FirstFailure(_)
FirstFailure(labels) ==
    IF labels = <<>> THEN "None"
    ELSE IF LabelCheck(Head(labels)) # "None" THEN LabelCheck(Head(labels))
    ELSE FirstFailure(Tail(labels))

\* The label starts or ends with '-'.
HasHyphenAtEnd(l) == l # <<>> /\ (l[1] = 45 \/ l[Len(l)] = 45)

\* C17: for a text domain the result is the first failing check of the first
\* failing label, the checks being: empty, first character not
\* alphanumeric, last character not alphanumeric, longer than 63, a
\* character that is not atext.  So no accepted text domain has a label that
\* starts or ends with a hyphen, and an over-long label that starts or ends
\* with a hyphen yields InvalidCharacter, not SubDomainTooLong.
C17_FirstFailingCheck ==
    (op = "parse_domain" /\ IsTextDomainInput(address)) =>
        LET labels == LabelsLeftToRight(address) IN
        /\ FirstFailure(labels) # "None" => result = Err(FirstFailure(labels))
        /\ FirstFailure(labels) = "None" => result.err \in {"None", "DomainTooFew"}
        /\ result.ok => \A k \in 1..Len(labels) : ~HasHyphenAtEnd(labels[k])
        /\ (Len(labels) = 1 /\ HasHyphenAtEnd(address)
               /\ StrLen(address) > SUB_DOMAIN_MAX_LENGTH)
              => result = Err("InvalidCharacter")

\* C17 witness: a single over-long label that ends with a hyphen, refused
\* for the character.
C17_Witness ==
    /\ op = "parse_domain"
    /\ IsTextDomainInput(address)
    /\ DOT \notin CharsOf(address)
    /\ address[1] = 97
    /\ address[Len(address)] = 45
    /\ StrLen(address) > SUB_DOMAIN_MAX_LENGTH
    /\ result = Err("InvalidCharacter")

\* The number of labels: one more than the number of dots.
LabelCount(s) == Cardinality({i \in 1..Len(s) : s[i] = DOT}) + 1

\* C18: the text-domain parser returns DomainTooFew exactly when every
\* label passes all its checks and there are fewer labels than
\* minimum_sub_domains; a label error takes priority, and with
\* minimum_sub_domains = 0 DomainTooFew is never returned.
C18_DomainTooFew ==
    (op = "parse_domain" /\ IsTextDomainInput(address)) =>
        /\ result = Err("DomainTooFew") <=>
              /\ FirstFailure(LabelsLeftToRight(address)) = "None"
              /\ LabelCount(address) < options.minimum_sub_domains
        /\ options.minimum_sub_domains = 0 => result.err # "DomainTooFew"

\* C18 witness: one valid label where two are required.
C18_Witness ==
    /\ op = "parse_domain"
    /\ IsTextDomainInput(address)
    /\ LabelCount(address) = 1
    /\ options.minimum_sub_domains = 2
    /\ result = Err("DomainTooFew")
----------------------------------------------------------------------------
(* The entry points of EmailAddress: parse_with_options, from_str and      *)
(* is_valid, on addresses whose domain is a text domain or a literal, bare *)
(* and inside a display wrapper (specification SpecEntry).                 *)

from_str(s) == parse_address(s, DefaultOptions)

is_valid(addr) == from_str(addr).ok

MaxEntryLen == 3
\* a . [ ]
EntryChars == {97, 46, 91, 93}
EntryDomains == AllStrings(EntryChars, MaxEntryLen)
\* "a@" domain, and the same inside "a <" ... ">" and inside "<" ... ">"
EntryTexts ==
    {<<97, AT>> \o d : d \in EntryDomains}
    \cup {<<97>> \o DISPLAY_SEP \o <<97, AT>> \o d \o <<DISPLAY_END>> :
            d \in EntryDomains}
    \cup {<<DISPLAY_START, 97, AT>> \o d \o <<DISPLAY_END>> :
            d \in EntryDomains}

InitEntry ==
    /\ address \in EntryTexts
    /\ other = <<>>
    /\ options = DefaultOptions
    /\ op = "none"
    /\ result = NoResult

FromStr ==
    /\ op = "none"
    /\ result' = from_str(address)
    /\ op' = "from_str"
    /\ UNCHANGED <<address, other, options>>

\* The boolean returned is carried in the val field of an Ok record.
IsValid ==
    /\ op = "none"
    /\ result' = Ok(is_valid(address))
    /\ op' = "is_valid"
    /\ UNCHANGED <<address, other, options>>

NextEntry == ParseWithOptions \/ FromStr \/ IsValid

SpecEntry == InitEntry /\ [][NextEntry]_vars

\* C19: under a Configuration with minimum_sub_domains = n, every address
\* that parses successfully has a domain made of at least n dot-separated
\* labels.
C19_MinimumSubDomainsEnforced ==
    (Parsed /\ result.ok) =>
        LabelCount(domain(result.val)) >= options.minimum_sub_domains

\* The Configuration the claim gives as the default.
StatedDefault ==
    [minimum_sub_domains |-> 0,
     allow_domain_literal |-> TRUE,
     allow_display_text |-> TRUE]

\* C20: the default Configuration is minimum_sub_domains = 0,
\* allow_domain_literal = true, allow_display_text = true; from_str(T)
\* returns what parse_with_options(T, default) returns, and is_valid(T) is
\* true exactly when from_str(T) succeeds.
C20_DefaultEntryPoints ==
    /\ DefaultOptions = StatedDefault
    /\ op = "from_str" => result = parse_address(address, StatedDefault)
    /\ op = "is_valid" =>
          (result.val <=> parse_address(address, StatedDefault).ok)

\* from_str accepts a literal domain inside a display wrapper.
C20_Witness ==
    /\ op = "from_str"
    /\ result.ok
    /\ display_part(result.val) # <<>>
    /\ IsBracketed(domain(result.val))
----------------------------------------------------------------------------
(* The builder methods of Options (specification SpecOptions).  A chain of  *)
(* calls Options::default().m1().m2()...: options is the receiver of the   *)
(* last call, result the value it returned, other the calls made so far.   *)

with_minimum_sub_domains(self, min) ==
    [minimum_sub_domains |-> min,
     allow_domain_literal |-> self.allow_domain_literal,
     allow_display_text |-> self.allow_display_text]

with_no_minimum_sub_domains(self) ==
    [minimum_sub_domains |-> 0,
     allow_domain_literal |-> self.allow_domain_literal,
     allow_display_text |-> self.allow_display_text]

with_required_tld(self) ==
    [minimum_sub_domains |-> 2,
     allow_domain_literal |-> self.allow_domain_literal,
     allow_display_text |-> self.allow_display_text]

with_domain_literal(self) ==
    [minimum_sub_domains |-> self.minimum_sub_domains,
     allow_domain_literal |-> TRUE,
     allow_display_text |-> self.allow_display_text]

without_domain_literal(self) ==
    [minimum_sub_domains |-> self.minimum_sub_domains,
     allow_domain_literal |-> FALSE,
     allow_display_text |-> self.allow_display_text]

with_display_text(self) ==
    [minimum_sub_domains |-> self.minimum_sub_domains,
     allow_domain_literal |-> self.allow_domain_literal,
     allow_display_text |-> TRUE]

\* without_display_text built on the default instead of the receiver.
without_display_text_from_default(self) ==
    [minimum_sub_domains |-> DefaultOptions.minimum_sub_domains,
     allow_domain_literal |-> DefaultOptions.allow_domain_literal,
     allow_display_text |-> FALSE]

without_display_text(self) ==
    [minimum_sub_domains |-> self.minimum_sub_domains,
     allow_domain_literal |-> self.allow_domain_literal,
     allow_display_text |-> FALSE]

MaxCalls == 3

InitOptions ==
    /\ address = <<>>
    /\ other = <<>>
    /\ options = DefaultOptions
    /\ op = "none"
    /\ result = DefaultOptions

\* One call on the value the chain has produced so far.
Call(name, field, value, returned) ==
    /\ Len(other) < MaxCalls
    /\ options' = result
    /\ result' = returned
    /\ op' = name
    /\ other' = Append(other, [name |-> name, field |-> field, value |-> value])
    /\ UNCHANGED address

WithMinimumSubDomains ==
    \E min \in 0..MaxMinSubDomains :
        Call("with_minimum_sub_domains", "minimum_sub_domains", min,
             with_minimum_sub_domains(result, min))

WithNoMinimumSubDomains ==
    Call("with_no_minimum_sub_domains", "minimum_sub_domains", 0,
         with_no_minimum_sub_domains(result))

WithRequiredTld ==
    Call("with_required_tld", "minimum_sub_domains", 2,
         with_required_tld(result))

WithDomainLiteral ==
    Call("with_domain_literal", "allow_domain_literal", TRUE,
         with_domain_literal(result))

WithoutDomainLiteral ==
    Call("without_domain_literal", "allow_domain_literal", FALSE,
         without_domain_literal(result))

WithDisplayText ==
    Call("with_display_text", "allow_display_text", TRUE,
         with_display_text(result))

WithoutDisplayText ==
    Call("without_display_text", "allow_display_text", FALSE,
         without_display_text(result))

NextOptions ==
    \/ WithMinimumSubDomains
    \/ WithNoMinimumSubDomains
    \/ WithRequiredTld
    \/ WithDomainLiteral
    \/ WithoutDomainLiteral
    \/ WithDisplayText
    \/ WithoutDisplayText

SpecOptions == InitOptions /\ [][NextOptions]_vars

OptionFields ==
    {"minimum_sub_domains", "allow_domain_literal", "allow_display_text"}

\* The positions of the calls that name a field.
CallsNaming(f) == {k \in 1..Len(other) : other[k].field = f}

\* The value a field has after the calls made: that of the last call naming
\* it, or the default.
LastSet(f) ==
    IF CallsNaming(f) = {} THEN DefaultOptions[f]
    ELSE other[MaxOf(CallsNaming(f))].value

\* C21: each builder method returns a value that sets only its own field
\* and leaves the other two equal to the receiver's; after any sequence of
\* builder calls each field holds the value set by the last call naming it,
\* or the default.
C21_BuildersSetOneField ==
    /\ other # <<>> =>
          LET call == other[Len(other)] IN
          /\ result[call.field] = call.value
          /\ \A f \in OptionFields \ {call.field} : result[f] = options[f]
    /\ \A f \in OptionFields : result[f] = LastSet(f)

\* C21 witness: a chain of three calls on three fields, the last of them
\* without_display_text, that leaves no field at its default.
C21_Witness ==
    /\ Len(other) = 3
    /\ op = "without_display_text"
    /\ {other[k].field : k \in 1..3} = OptionFields
    /\ \A f \in OptionFields : result[f] # DefaultOptions[f]
----------------------------------------------------------------------------
(* The character classes (specification SpecChars): each predicate applied *)
(* to one scalar value, held as a text of one character.                   *)

\* Every ASCII value, and beyond ASCII: section sign, e acute, Cyrillic ka,
\* Tibetan U+0F40, euro sign, CJK U+4E2D, Hangul U+C2B0, U+FFFD, Deseret
\* U+10400, emoji U+1F600, U+10FFFF.
SampleChars ==
    0..127 \cup {167, 233, 1082, 3904, 8364, 20013, 49840, 65533, 66560,
                 128512, 1114111}

InitChars ==
    /\ address \in {<<c>> : c \in SampleChars}
    /\ other = <<>>
    /\ options = DefaultOptions
    /\ op = "none"
    /\ result = NoResult

\* One predicate applied to the character; the boolean is the val field.
Classify(name, value) ==
    /\ op = "none"
    /\ result' = Ok(value)
    /\ op' = name
    /\ UNCHANGED <<address, other, options>>

IsUtf8NonAscii == Classify("is_utf8_non_ascii", is_utf8_non_ascii(address[1]))
IsAtext == Classify("is_atext", is_atext(address[1]))
IsQtextChar == Classify("is_qtext_char", is_qtext_char(address[1]))
IsDtextChar == Classify("is_dtext_char", is_dtext_char(address[1]))

NextChars == IsUtf8NonAscii \/ IsAtext \/ IsQtextChar \/ IsDtextChar

SpecChars == InitChars /\ [][NextChars]_vars

\* C22: is_utf8_non_ascii is true for a scalar value exactly when its UTF-8
\* encoding has 2, 3 or 4 bytes, that is for every non-ASCII value, and
\* false for every ASCII value; so atext, qtext and dtext accept every
\* non-ASCII character.
C22_NonAsciiAccepted ==
    LET c == address[1] IN
    /\ op = "is_utf8_non_ascii" => (result.val <=> Utf8Len(c) \in 2..4)
    /\ (op \in {"is_atext", "is_qtext_char", "is_dtext_char"} /\ c > 127)
          => result.val
----------------------------------------------------------------------------
(* Rendering: to_uri and to_display, and the parse of what they return     *)
(* (specification SpecRender).  address is the text of a parsed value,     *)
(* other the rendering, result the parse of the rendering.                 *)

\* "mailto:"
MAILTO_URI_PREFIX == <<109, 97, 105, 108, 116, 111, 58>>

\* ! # $ % & ' ( ) * + , / : ; = ? [ ]
is_uri_reserved(c) ==
    c \in {33, 35, 36, 37, 38, 39, 40, 41, 42, 43, 44, 47, 58, 59, 61, 63, 91, 93}

\* One digit of {:02X}.
HexDigit(d) == IF d < 10 THEN 48 + d ELSE 55 + d

\* format!("%{:02X}", c as u8)
PercentEncode(c) ==
    LET b == c % 256 IN <<37, HexDigit(b \div 16), HexDigit(b % 16)>>

RECURSIVE encode(_)
encode(s) ==
    IF s = <<>> THEN <<>>
    ELSE (IF is_uri_reserved(Head(s)) THEN PercentEncode(Head(s)) ELSE <<Head(s)>>)
         \o encode(Tail(s))

to_uri(email) == MAILTO_URI_PREFIX \o encode(email)

to_display(email, display_name) ==
    display_name \o <<32, DISPLAY_START>> \o email \o <<DISPLAY_END>>

\* str::strip_prefix, the text itself when the prefix is absent.
StripPrefix(s, p) ==
    IF Len(s) >= Len(p) /\ SubSeq(s, 1, Len(p)) = p
    THEN SubSeq(s, Len(p) + 1, Len(s))
    ELSE s

MaxRenderLen == 3
\* a !
RenderLocalChars == {97, 33}
\* a ! [ ]
RenderDomainChars == {97, 33, 91, 93}
\* local@domain, and the same inside "a <" ... ">"
RenderTexts ==
    LET bare == {l \o <<AT>> \o d :
                    l \in AllStrings(RenderLocalChars, MaxRenderLen - 1),
                    d \in AllStrings(RenderDomainChars, MaxRenderLen)}
    IN  bare \cup {<<97>> \o DISPLAY_SEP \o t \o <<DISPLAY_END>> : t \in bare}
\* n, n n
RenderNames == {<<110>>, <<110, 32, 110>>}

InitRender ==
    /\ address \in {t \in RenderTexts : from_str(t).ok}
    /\ other = <<>>
    /\ options = DefaultOptions
    /\ op = "none"
    /\ result = NoResult

ToUri ==
    /\ op = "none"
    /\ other' = to_uri(address)
    /\ op' = "to_uri"
    /\ UNCHANGED <<address, options, result>>

ToDisplay ==
    /\ op = "none"
    /\ \E name \in RenderNames : other' = to_display(address, name)
    /\ op' = "to_display"
    /\ UNCHANGED <<address, options, result>>

\* from_str on the URI without its "mailto:" prefix.
ParseUri ==
    /\ op = "to_uri"
    /\ result' = from_str(StripPrefix(other, MAILTO_URI_PREFIX))
    /\ op' = "from_str_uri"
    /\ UNCHANGED <<address, other, options>>

\* from_str on the display rendering.
ParseDisplay ==
    /\ op = "to_display"
    /\ result' = from_str(other)
    /\ op' = "from_str_display"
    /\ UNCHANGED <<address, other, options>>

NextRender == ToUri \/ ToDisplay \/ ParseUri \/ ParseDisplay

SpecRender == InitRender /\ [][NextRender]_vars

\* C23: for every parsed address A, parsing to_uri(A) without the "mailto:"
\* prefix and parsing to_display(A, name) for a non-empty name both succeed
\* and give a value whose email() is A's email text.
C23_RenderingRoundTrips ==
    op \in {"from_str_uri", "from_str_display"} =>
        /\ result.ok
        /\ email_of(result.val) = email_of(address)
----------------------------------------------------------------------------
(* The public operations on a value built by new_unchecked (specification  *)
(* SpecUnchecked).  Result::unwrap on an Err panics: the outcome Panic.    *)

new_unchecked(addr) == addr

Panic == [ok |-> FALSE, err |-> "panic", val |-> <<>>]

MaxUncheckedLen == 3
UncheckedTexts == AllStrings(AddressChars, MaxUncheckedLen)
\* The other operand of ==: a@a, a, and a <a@a>
OtherTexts == {<<97, 64, 97>>, <<97>>, <<97, 32, 60, 97, 64, 97, 62>>}

InitUnchecked ==
    /\ address \in {new_unchecked(t) : t \in UncheckedTexts}
    /\ other \in {new_unchecked(t) : t \in OtherTexts}
    /\ options = DefaultOptions
    /\ op = "none"
    /\ result = NoResult

\* An operation that returns what the closure of its outcome says.
Invoke(name, outcome) ==
    /\ op = "none"
    /\ result' = outcome
    /\ op' = name
    /\ UNCHANGED <<address, other, options>>

\* split_parts(&self.0).unwrap()
CallLocalPart ==
    Invoke("local_part",
           IF split_parts(address).ok THEN Ok(local_part(address)) ELSE Panic)

CallDomain ==
    Invoke("domain",
           IF split_parts(address).ok THEN Ok(domain(address)) ELSE Panic)

CallDisplayPart ==
    Invoke("display_part",
           IF split_parts(address).ok THEN Ok(display_part(address)) ELSE Panic)

CallEmail ==
    Invoke("email",
           IF split_parts(address).ok THEN Ok(email_of(address)) ELSE Panic)

\* split_at(&self.0).unwrap() and split_at(&other.0).unwrap()
CallEq ==
    Invoke("eq",
           IF split_at(address).ok /\ split_at(other).ok
           THEN Ok(eq(address, other))
           ELSE Panic)

CallToUri == Invoke("to_uri", Ok(to_uri(address)))

CallToDisplay == Invoke("to_display", Ok(to_display(address, other)))

NextUnchecked ==
    \/ ParseWithOptions
    \/ CallLocalPart
    \/ CallDomain
    \/ CallDisplayPart
    \/ CallEmail
    \/ CallEq
    \/ CallToUri
    \/ CallToDisplay

SpecUnchecked == InitUnchecked /\ [][NextUnchecked]_vars

\* C24: no public operation panics, for any input text and for any value
\* however it was constructed, the unchecked constructor included.
C24_NoPanic == result.err # "panic"
----------------------------------------------------------------------------
(* Claims about the order of the stages of parse_address (specification    *)
(* SpecStages: parse_with_options on the texts of at most MaxStageLen      *)
(* characters).                                                            *)

MaxStageLen == 5

InitStages ==
    /\ address \in AllStrings(AddressChars, MaxStageLen)
    /\ other = <<>>
    /\ options = DefaultOptions
    /\ op = "none"
    /\ result = NoResult

NextStages == ParseWithOptions

SpecStages == InitStages /\ [][NextStages]_vars

\* The display-name configuration error of a split text, "None" if there is
\* none: a display name that the Configuration does not allow, or a local
\* part that begins with '<' and no display name.
DisplayNameError(local, display, opts) ==
    IF display # <<>>
    THEN (IF opts.allow_display_text THEN "None" ELSE "UnsupportedDisplayName")
    ELSE IF StartsWith(local, DISPLAY_START)
    THEN (IF opts.allow_display_text THEN "MissingDisplayName" ELSE "InvalidCharacter")
    ELSE "None"

\* C26: parsing short-circuits in stage order: a splitter failure
\* (MissingEndBracket, then MissingSeparator) is reported before any
\* display-name configuration error, which is reported before any local-part
\* error, which is reported before any domain error; when both the local
\* part and the domain are invalid the error is the local part's.
C26_StageOrder ==
    Parsed =>
        LET de == split_display_email(address) IN
        IF ~de.ok THEN result = Err("MissingEndBracket")
        ELSE IF AT \notin CharsOf(de.val[2]) THEN result = Err("MissingSeparator")
        ELSE LET parts == split_parts(address).val
                 dn == DisplayNameError(parts[1], parts[3], options)
                 l == parse_local_part(parts[1], options)
                 d == parse_domain(parts[2], options)
             IN  IF dn # "None" THEN result = Err(dn)
                 ELSE IF ~l.ok THEN result = l
                 ELSE IF ~d.ok THEN result = d
                 ELSE result.ok

\* C26 witness: the local part and the domain are both invalid, with
\* different errors, and the local part's is returned.
C26_Witness ==
    /\ Parsed
    /\ split_parts(address).ok
    /\ LET parts == split_parts(address).val IN
       /\ DisplayNameError(parts[1], parts[3], options) = "None"
       /\ ~parse_local_part(parts[1], options).ok
       /\ ~parse_domain(parts[2], options).ok
       /\ parse_local_part(parts[1], options) # parse_domain(parts[2], options)
       /\ result = parse_local_part(parts[1], options)
----------------------------------------------------------------------------
(* Claims about the separator (specification SpecAt: parse_with_options on *)
(* texts with several '@', with quotes, and with a local part near the     *)
(* length limit).                                                          *)

MaxAtLen == 5
\* a @ " <
AtChars == {97, 64, 34, 60}
\* a@aaa...a@a, with a local part of 64 - Slack to 64 + Slack characters
\* and "aaa...a@a, with a local part of the same lengths
LongAtTexts ==
    {h \o Rep(97, n - Len(h)) \o <<AT, 97>> :
        h \in {<<97, AT>>, <<DQUOTE>>},
        n \in (LOCAL_PART_MAX_LENGTH - Slack)..(LOCAL_PART_MAX_LENGTH + Slack)}
AtTexts == AllStrings(AtChars, MaxAtLen) \cup LongAtTexts

InitAt ==
    /\ address \in AtTexts
    /\ other = <<>>
    /\ options = DefaultOptions
    /\ op = "none"
    /\ result = NoResult

NextAt == ParseWithOptions

SpecAt == InitAt /\ [][NextAt]_vars

\* The position of the last '@' of a text that has one.
LastAt(t) == MaxOf({i \in 1..Len(t) : t[i] = AT})

\* The address portion of a text that splits: the text itself, or what the
\* display wrapper encloses.
AddressPortion(t) == split_display_email(t).val[2]

\* The split at the last '@' of the address portion.
SplitsAtLastAt ==
    LET e == AddressPortion(address)
        parts == split_parts(address).val
    IN  /\ parts[1] = SubSeq(e, 1, LastAt(e) - 1)
        /\ parts[2] = SubSeq(e, LastAt(e) + 1, Len(e))
        /\ AT \notin CharsOf(parts[2])

\* A quoted local part with '@' inside and a domain that is valid is
\* accepted.
QuotedAtAccepted ==
    LET parts == split_parts(address).val IN
    (/\ IsQuoted(parts[1])
     /\ AT \in CharsOf(parts[1])
     /\ QuotedOutcome(parts[1]).ok
     /\ StrLen(parts[1]) <= LOCAL_PART_MAX_LENGTH
     /\ DisplayNameError(parts[1], parts[3], options) = "None"
     /\ parse_domain(parts[2], options).ok) => result.ok

----------------------------------------------------------------------------
(* The validity of the components and of the text joined from them         *)
(* (specification SpecJoin).  address is the local part L, other the       *)
(* domain D.                                                               *)

is_valid_local_part(part) == parse_local_part(part, DefaultOptions).ok

is_valid_domain(part) == parse_domain(part, DefaultOptions).ok

MaxJoinLen == 4
\* a " space <
JoinLocalChars == {97, 34, 32, 60}
\* a [ ] @
JoinDomainChars == {97, 91, 93, 64}

InitJoin ==
    /\ address \in AllStrings(JoinLocalChars, MaxJoinLen)
    /\ other \in AllStrings(JoinDomainChars, MaxJoinLen - 1)
    /\ options = DefaultOptions
    /\ op = "none"
    /\ result = NoResult

\* L + '@' + D
Joined == address \o <<AT>> \o other

IsValidLocalPart == Invoke("is_valid_local_part", Ok(is_valid_local_part(address)))

IsValidDomain == Invoke("is_valid_domain", Ok(is_valid_domain(other)))

IsValidJoined == Invoke("is_valid", Ok(is_valid(Joined)))

NextJoin == IsValidLocalPart \/ IsValidDomain \/ IsValidJoined

SpecJoin == InitJoin /\ [][NextJoin]_vars

\* C28: if is_valid_local_part(L) and is_valid_domain(D) hold then
\* is_valid(L + '@' + D) holds, with local_part() = L and domain() = D.
C28_ValidityComposes ==
    (/\ op = "is_valid"
     /\ is_valid_local_part(address)
     /\ is_valid_domain(other)) =>
        /\ result.val
        /\ local_part(Joined) = address
        /\ domain(Joined) = other
----------------------------------------------------------------------------
(* Claims about the Configuration as a whole (specification SpecEntry).    *)

\* Configuration r is at least as restrictive as o: every toggle that o
\* refuses r refuses too, and r asks for at least as many labels.
AtLeastAsRestrictive(r, o) ==
    /\ r.minimum_sub_domains >= o.minimum_sub_domains
    /\ r.allow_domain_literal => o.allow_domain_literal
    /\ r.allow_display_text => o.allow_display_text

\* C29: every text accepted under any Configuration is accepted under the
\* default one, and turning a toggle to its restrictive setting never makes
\* a rejected text accepted.
C29_DefaultMostPermissive ==
    Parsed =>
        /\ result.ok => parse_address(address, DefaultOptions).ok
        /\ ~result.ok =>
              \A r \in OptionsSet :
                  AtLeastAsRestrictive(r, options) => ~parse_address(address, r).ok

\* C29 witness: a one-label domain inside a display wrapper, accepted under
\* the default and refused under a Configuration that allows the wrapper
\* and asks for two labels.
C29_Witness ==
    /\ Parsed
    /\ result = Err("DomainTooFew")
    /\ options.allow_display_text
    /\ MarkerAt(address) # {}
    /\ parse_address(address, DefaultOptions).ok
----------------------------------------------------------------------------
(* Claims about the error kinds that are never returned (specification     *)
(* SpecAt).                                                                *)

\* The kinds of Error that the claim says parsing never returns.
NeverReturned ==
    {"DomainInvalidSeparator", "UnbalancedQuotes", "InvalidComment",
     "InvalidIPAddress"}

\* The local part has exactly one double quote.
SingleQuote(l) == Cardinality({i \in 1..Len(l) : l[i] = DQUOTE}) = 1

\* C30 as stated: parsing never returns DomainInvalidSeparator,
\* UnbalancedQuotes, InvalidComment or InvalidIPAddress; a local part with a
\* single unmatched double quote yields InvalidCharacter, or LocalPartEmpty
\* when the local part is just the quote character.
C30_NoUnbalancedQuotes ==
    Parsed =>
        /\ result.err \notin NeverReturned
        /\ (split_parts(address).ok /\ SingleQuote(local_part(address))) =>
              result = (IF local_part(address) = <<DQUOTE>>
                        THEN Err("LocalPartEmpty")
                        ELSE Err("InvalidCharacter"))

\* C30 amended: the same, the local part with a single unmatched double
\* quote yielding InvalidCharacter (or LocalPartEmpty) when no earlier check
\* reports first: it is at most 64 bytes long (LocalPartTooLong otherwise)
\* and raises no display-name error; in every case parsing fails.
C30_NoUnbalancedQuotesWithinLimit ==
    Parsed =>
        /\ result.err \notin NeverReturned
        /\ (split_parts(address).ok /\ SingleQuote(local_part(address))) =>
              LET parts == split_parts(address).val
                  dn == DisplayNameError(parts[1], parts[3], options)
              IN  /\ ~result.ok
                  /\ (dn = "None" /\ StrLen(parts[1]) <= LOCAL_PART_MAX_LENGTH) =>
                        result = (IF parts[1] = <<DQUOTE>>
                                  THEN Err("LocalPartEmpty")
                                  ELSE Err("InvalidCharacter"))
                  /\ (dn = "None" /\ StrLen(parts[1]) > LOCAL_PART_MAX_LENGTH) =>
                        result = Err("LocalPartTooLong")
                  /\ dn # "None" => result = Err(dn)

\* C30 witness: a local part that opens with a quote it never closes,
\* refused with InvalidCharacter.
C30_Witness ==
    /\ Parsed
    /\ split_parts(address).ok
    /\ SingleQuote(local_part(address))
    /\ StartsWith(local_part(address), DQUOTE)
    /\ Len(local_part(address)) > 1
    /\ result = Err("InvalidCharacter")

====
